---- MODULE Spec2Model ----
(***************************************************************************)
(* ETA/ATA consistency analysis (src/app.py).                              *)
(*                                                                         *)
(* The Streamlit script is re-executed on every interaction.  The state    *)
(* kept between executions is the uploaded file and the five selectbox     *)
(* values; everything else is what the latest execution computed and       *)
(* displayed.  One action per interaction: uploading a file, removing it,  *)
(* changing a selectbox, pressing the button.                              *)
(*                                                                         *)
(* A DataFrame is [columns |-> sequence of names, rows |-> sequence of     *)
(* [idx |-> index label, cells |-> function from column name to string]].  *)
(***************************************************************************)
EXTENDS Integers, Sequences, FiniteSets, TLC

VARIABLES pc, df, mapping, work_df, containers, unique_bols, bol_stats,
          bols_same_aj, bols_diff_aj, bols_same_ak, bols_diff_ak,
          same_aj_df, different_aj_df, same_ak_df, different_ak_df,
          summary_df, zip_buffer, messages

vars == <<pc, df, mapping, work_df, containers, unique_bols, bol_stats,
          bols_same_aj, bols_diff_aj, bols_same_ak, bols_diff_ak,
          same_aj_df, different_aj_df, same_ak_df, different_ak_df,
          summary_df, zip_buffer, messages>>

\* Largest number of data lines of an uploaded two-column file.
MaxRows == 3

Range(s) == {s[i] : i \in DOMAIN s}

\* ------------------------------------------------------------------------
\* Uploaded files: a header line and data lines of raw cell texts.
\* ------------------------------------------------------------------------

\* A two-column file whose first column is called like one of the working
\* columns the analysis adds.
NarrowHeader == <<"identifier", "x">>

\* The raw texts of a data line, column by column.
NarrowLines ==
    {<<a, b>> : a \in {"Container", "container"},
                b \in {"Container", "container", "NA"}}

NarrowFiles ==
    {[header |-> NarrowHeader, lines |-> l] :
        l \in UNION {[1..n -> NarrowLines] : n \in 0..MaxRows}}

\* The five-column table of the four-row scenario; the uploaded files with
\* this header are the scenario's lines with at most one of them left out.
ScenarioHeader == <<"id", "type", "bol", "a", "b">>

ScenarioLines ==
    << <<"1", "Container", "A", "10", "12">>,
       <<"2", "Container", "A", "10", "13">>,
       <<"3", "Other",     "A", "x",  "y">>,
       <<"4", "Container", "B", "",   "">> >>

RECURSIVE Pick(_, _)
Pick(s, keep) ==
    IF s = <<>> THEN <<>>
    ELSE LET front == Pick(SubSeq(s, 1, Len(s) - 1), keep)
         IN  IF Len(s) \in keep THEN Append(front, s[Len(s)]) ELSE front

WideFiles ==
    {[header |-> ScenarioHeader, lines |-> Pick(ScenarioLines, keep)] :
        keep \in {k \in SUBSET (1..Len(ScenarioLines)) :
                        Cardinality(k) >= Len(ScenarioLines) - 1}}

Files == NarrowFiles \cup WideFiles

\* ------------------------------------------------------------------------
\* Loading: pd.read_csv(dtype=str) followed by fillna("").
\* ------------------------------------------------------------------------

\* Cell texts pandas reads as missing (the ones the inputs use).
NaValues == {"", "NA"}

ReadCell(raw) == IF raw \in NaValues THEN "" ELSE raw

ColPos(header, c) == CHOOSE k \in DOMAIN header : header[k] = c

ReadCsv(file) ==
    [columns |-> file.header,
     rows    |-> [i \in 1..Len(file.lines) |->
                    [idx   |-> i - 1,
                     cells |-> [c \in Range(file.header) |->
                                  ReadCell(file.lines[i][ColPos(file.header, c)])]]]]

NoFrame == [columns |-> <<>>, rows |-> <<>>]

Roles == {"identifier_col", "shipment_type_col", "bol_id_col", "aj_col", "ak_col"}

\* st.selectbox(options=cols) with no index: the first option.
DefaultMapping(cols) == [r \in Roles |-> cols[1]]

NoMapping == [r \in Roles |-> ""]

\* ------------------------------------------------------------------------
\* The analysis.
\* ------------------------------------------------------------------------

\* work_df[name] = work_df[src].astype(str): the cells are strings already.
SetCol(frame, name, src) ==
    [columns |-> IF name \in Range(frame.columns) THEN frame.columns
                 ELSE Append(frame.columns, name),
     rows    |-> [i \in DOMAIN frame.rows |->
                    [idx   |-> frame.rows[i].idx,
                     cells |-> [c \in DOMAIN frame.rows[i].cells \cup {name} |->
                                  IF c = name THEN frame.rows[i].cells[src]
                                  ELSE frame.rows[i].cells[c]]]]]

\* The five assignments, each made on the result of the one before.
Project(frame, m) ==
    LET w1 == SetCol(frame, "identifier", m.identifier_col)
        w2 == SetCol(w1, "shipment_type", m.shipment_type_col)
        w3 == SetCol(w2, "bol_id", m.bol_id_col)
        w4 == SetCol(w3, "aj", m.aj_col)
    IN  SetCol(w4, "ak", m.ak_col)

\* A column lookup that raises KeyError.
ProjectRaises(frame, m) ==
    LET w1 == SetCol(frame, "identifier", m.identifier_col)
        w2 == SetCol(w1, "shipment_type", m.shipment_type_col)
        w3 == SetCol(w2, "bol_id", m.bol_id_col)
        w4 == SetCol(w3, "aj", m.aj_col)
    IN  \/ m.identifier_col \notin Range(frame.columns)
        \/ m.shipment_type_col \notin Range(w1.columns)
        \/ m.bol_id_col \notin Range(w2.columns)
        \/ m.aj_col \notin Range(w3.columns)
        \/ m.ak_col \notin Range(w4.columns)

IsContainerLower(row) == row.cells["shipment_type"] \in {"Container", "container"}

IsContainer(row) == row.cells["shipment_type"] = "Container"

FilterContainers(work) ==
    [columns |-> work.columns,
     rows    |-> SelectSeq(work.rows, IsContainer)]

IsEmptyNever(cont) == FALSE

\* containers.empty
IsEmpty(cont) == cont.rows = <<>>

Column(frame, c) == [i \in DOMAIN frame.rows |-> frame.rows[i].cells[c]]

RECURSIVE DropDuplicates(_)
DropDuplicates(s) ==
    IF s = <<>> THEN <<>>
    ELSE LET front == DropDuplicates(SubSeq(s, 1, Len(s) - 1))
         IN  IF s[Len(s)] \in Range(front) THEN front
             ELSE Append(front, s[Len(s)])

\* containers[["bol_id"]].drop_duplicates().reset_index(drop=True)
UniqueBols(cont) ==
    LET ids == DropDuplicates(Column(cont, "bol_id"))
    IN  [columns |-> <<"bol_id">>,
         rows    |-> [i \in DOMAIN ids |->
                        [idx |-> i - 1, cells |-> [c \in {"bol_id"} |-> ids[i]]]]]

NUniqueDropBlank(series) == Cardinality(Range(series) \ {""})

\* series.astype(str).nunique(dropna=False)
NUnique(series) == Cardinality(Range(series))

\* One group of containers.groupby("bol_id", dropna=False).
Group(cont, b) ==
    [columns |-> cont.columns,
     rows    |-> SelectSeq(cont.rows, LAMBDA r : r.cells["bol_id"] = b)]

\* grouped.agg(...).reset_index(): one record per group.  The order of the
\* records is used by nothing downstream (only len and isin), so the table
\* is kept as the set of its records.
BolStats(cont) ==
    {LET g == Group(cont, b)
     IN  [bol_id    |-> b,
          n_aj      |-> NUnique(Column(g, "aj")),
          n_ak      |-> NUnique(Column(g, "ak")),
          row_count |-> Len(g.rows)] :
        b \in Range(Column(cont, "bol_id"))}

BolsSameAj(stats) == {s.bol_id : s \in {t \in stats : t.n_aj = 1}}

BolsDiffAjAtLeastOne(stats) == {s.bol_id : s \in {t \in stats : t.n_aj >= 1}}

BolsDiffAj(stats) == {s.bol_id : s \in {t \in stats : t.n_aj > 1}}

BolsSameAkAtLeastOne(stats) == {s.bol_id : s \in {t \in stats : t.n_ak >= 1}}

BolsSameAk(stats) == {s.bol_id : s \in {t \in stats : t.n_ak = 1}}

BolsDiffAk(stats) == {s.bol_id : s \in {t \in stats : t.n_ak > 1}}

base_cols == <<"bol_id", "identifier", "shipment_type", "aj", "ak">>

BaseRow(r) == [idx |-> r.idx, cells |-> [c \in Range(base_cols) |-> r.cells[c]]]

RECURSIVE ConcatGroups(_, _)
ConcatGroups(cont, ids) ==
    IF ids = <<>> THEN <<>>
    ELSE ConcatGroups(cont, SubSeq(ids, 1, Len(ids) - 1))
         \o Group(cont, ids[Len(ids)]).rows

\* The rows of each selected BOL, one BOL after the other.
ExtractByGroup(cont, bols) ==
    LET rows == ConcatGroups(cont,
                    SelectSeq(DropDuplicates(Column(cont, "bol_id")),
                              LAMBDA b : b \in bols))
    IN  [columns |-> base_cols,
         rows    |-> [i \in DOMAIN rows |-> BaseRow(rows[i])]]

\* containers[containers["bol_id"].isin(bols)][base_cols].copy()
Extract(cont, bols) ==
    LET rows == SelectSeq(cont.rows, LAMBDA r : r.cells["bol_id"] \in bols)
    IN  [columns |-> base_cols,
         rows    |-> [i \in DOMAIN rows |-> BaseRow(rows[i])]]

SummaryRowsSwapped(cont, ubols, sameAj, diffAj, sameAk, diffAk) ==
    << [case |-> "total_container_rows", count |-> Len(cont.rows)],
       [case |-> "unique_bols",
        count |-> Cardinality(Range(Column(ubols, "bol_id")))],
       [case |-> "bols_same_aj", count |-> Cardinality(diffAj)],
       [case |-> "bols_different_aj", count |-> Cardinality(sameAj)],
       [case |-> "bols_same_ak", count |-> Cardinality(diffAk)],
       [case |-> "bols_different_ak", count |-> Cardinality(sameAk)] >>

\* summary_rows; the description texts are constants and are left out.
SummaryRows(cont, ubols, sameAj, diffAj, sameAk, diffAk) ==
    << [case |-> "total_container_rows", count |-> Len(cont.rows)],
       [case |-> "unique_bols",
        count |-> Cardinality(Range(Column(ubols, "bol_id")))],
       [case |-> "bols_same_aj", count |-> Cardinality(sameAj)],
       [case |-> "bols_different_aj", count |-> Cardinality(diffAj)],
       [case |-> "bols_same_ak", count |-> Cardinality(sameAk)],
       [case |-> "bols_different_ak", count |-> Cardinality(diffAk)] >>

\* pd.DataFrame(summary_rows, columns=["case", "description", "count"])
SummaryDf(rows) == [columns |-> <<"case", "description", "count">>, rows |-> rows]

\* The six members written to the archive, in the order of the writestr calls.
Zip(ubols, diffAjDf, diffAkDf, sameAjDf, sameAkDf, summary) ==
    << [name |-> "unique_bols.csv",  table |-> ubols],
       [name |-> "different_aj.csv", table |-> diffAjDf],
       [name |-> "different_ak.csv", table |-> diffAkDf],
       [name |-> "same_aj.csv",      table |-> sameAjDf],
       [name |-> "same_ak.csv",      table |-> sameAkDf],
       [name |-> "summary.csv",      table |-> summary] >>

\* Everything the pressed button computes from the loaded table and the
\* selections, when no lookup raises.
Analyse(frame, m) ==
    LET work    == Project(frame, m)
        cont    == FilterContainers(work)
        ubols   == UniqueBols(cont)
        stats   == BolStats(cont)
        sameAj  == BolsSameAj(stats)
        diffAj  == BolsDiffAj(stats)
        sameAk  == BolsSameAk(stats)
        diffAk  == BolsDiffAk(stats)
        sameAjDf == Extract(cont, sameAj)
        diffAjDf == Extract(cont, diffAj)
        sameAkDf == Extract(cont, sameAk)
        diffAkDf == Extract(cont, diffAk)
        summary  == SummaryDf(SummaryRows(cont, ubols,
                                          sameAj, diffAj, sameAk, diffAk))
    IN  [work_df |-> work, containers |-> cont, empty |-> IsEmpty(cont),
         unique_bols |-> ubols, bol_stats |-> stats,
         bols_same_aj |-> sameAj, bols_diff_aj |-> diffAj,
         bols_same_ak |-> sameAk, bols_diff_ak |-> diffAk,
         same_aj_df |-> sameAjDf, different_aj_df |-> diffAjDf,
         same_ak_df |-> sameAkDf, different_ak_df |-> diffAkDf,
         summary_df |-> summary,
         zip_buffer |-> Zip(ubols, diffAjDf, diffAkDf, sameAjDf, sameAkDf, summary)]

\* ------------------------------------------------------------------------
\* The interactions.
\* ------------------------------------------------------------------------

\* What an execution that does not reach the analysis leaves behind.
NoResults ==
    /\ work_df' = NoFrame
    /\ containers' = NoFrame
    /\ unique_bols' = NoFrame
    /\ bol_stats' = {}
    /\ bols_same_aj' = {}
    /\ bols_diff_aj' = {}
    /\ bols_same_ak' = {}
    /\ bols_diff_ak' = {}
    /\ same_aj_df' = NoFrame
    /\ different_aj_df' = NoFrame
    /\ same_ak_df' = NoFrame
    /\ different_ak_df' = NoFrame
    /\ summary_df' = NoFrame
    /\ zip_buffer' = <<>>

Init ==
    /\ pc = "idle"
    /\ df = NoFrame
    /\ mapping = NoMapping
    /\ work_df = NoFrame
    /\ containers = NoFrame
    /\ unique_bols = NoFrame
    /\ bol_stats = {}
    /\ bols_same_aj = {}
    /\ bols_diff_aj = {}
    /\ bols_same_ak = {}
    /\ bols_diff_ak = {}
    /\ same_aj_df = NoFrame
    /\ different_aj_df = NoFrame
    /\ same_ak_df = NoFrame
    /\ different_ak_df = NoFrame
    /\ summary_df = NoFrame
    /\ zip_buffer = <<>>
    /\ messages = <<"info_upload">>

\* A file is uploaded and parses: the table is loaded, the selectboxes show
\* their first option, the button is not pressed.
Upload ==
    /\ pc = "idle"
    /\ \E file \in Files :
         /\ df' = ReadCsv(file)
         /\ mapping' = DefaultMapping(file.header)
    /\ pc' = "loaded"
    /\ messages' = <<"write_detected">>
    /\ NoResults

\* A file is uploaded that pd.read_csv cannot parse: except Exception.
UploadUnparsable ==
    /\ pc = "idle"
    /\ pc' = "error"
    /\ df' = NoFrame
    /\ mapping' = NoMapping
    /\ messages' = <<"error">>
    /\ NoResults

\* The uploaded file is removed.
RemoveFile ==
    /\ pc # "idle"
    /\ pc' = "idle"
    /\ df' = NoFrame
    /\ mapping' = NoMapping
    /\ messages' = <<"info_upload">>
    /\ NoResults

\* One selectbox is changed to another of the table's columns; the script
\* runs again with the button not pressed.  (A change made after a run
\* leads to the same states as one made before it and is not enumerated.)
SelectColumn ==
    /\ pc = "loaded"
    /\ \E r \in Roles, c \in Range(df.columns) :
         /\ c # mapping[r]
         /\ mapping' = [mapping EXCEPT ![r] = c]
    /\ pc' = "loaded"
    /\ messages' = <<"write_detected">>
    /\ NoResults
    /\ UNCHANGED df

\* The button is pressed.
ClickRun ==
    /\ pc = "loaded"
    /\ UNCHANGED <<df, mapping>>
    /\ IF ProjectRaises(df, mapping)
       THEN /\ pc' = "error"
            /\ messages' = <<"write_detected", "error">>
            /\ NoResults
       ELSE LET res == Analyse(df, mapping)
            IN  IF res.empty
                THEN /\ pc' = "warned"
                     /\ messages' = <<"write_detected", "warning">>
                     /\ work_df' = res.work_df
                     /\ containers' = res.containers
                     /\ unique_bols' = NoFrame
                     /\ bol_stats' = {}
                     /\ bols_same_aj' = {}
                     /\ bols_diff_aj' = {}
                     /\ bols_same_ak' = {}
                     /\ bols_diff_ak' = {}
                     /\ same_aj_df' = NoFrame
                     /\ different_aj_df' = NoFrame
                     /\ same_ak_df' = NoFrame
                     /\ different_ak_df' = NoFrame
                     /\ summary_df' = NoFrame
                     /\ zip_buffer' = <<>>
                ELSE /\ pc' = "success"
                     /\ messages' = <<"write_detected", "info_rows", "success",
                                      "download_button", "summary_preview">>
                     /\ work_df' = res.work_df
                     /\ containers' = res.containers
                     /\ unique_bols' = res.unique_bols
                     /\ bol_stats' = res.bol_stats
                     /\ bols_same_aj' = res.bols_same_aj
                     /\ bols_diff_aj' = res.bols_diff_aj
                     /\ bols_same_ak' = res.bols_same_ak
                     /\ bols_diff_ak' = res.bols_diff_ak
                     /\ same_aj_df' = res.same_aj_df
                     /\ different_aj_df' = res.different_aj_df
                     /\ same_ak_df' = res.same_ak_df
                     /\ different_ak_df' = res.different_ak_df
                     /\ summary_df' = res.summary_df
                     /\ zip_buffer' = res.zip_buffer

Next ==
    \/ Upload
    \/ UploadUnparsable
    \/ RemoveFile
    \/ SelectColumn
    \/ ClickRun

Spec == Init /\ [][Next]_vars

\* ------------------------------------------------------------------------
\* Properties.
\* ------------------------------------------------------------------------

\* The button was pressed and the execution reached the container filter.
Ran == pc \in {"warned", "success"}

\* The BOL ids of the container rows, and the values a field takes over the
\* container rows of one BOL.
BolIds == {containers.rows[i].cells["bol_id"] : i \in DOMAIN containers.rows}

RowsOfBol(b) ==
    {i \in DOMAIN containers.rows : containers.rows[i].cells["bol_id"] = b}

ValuesOf(b, field) == {containers.rows[i].cells[field] : i \in RowsOfBol(b)}

IdxSet(frame) == {frame.rows[i].idx : i \in DOMAIN frame.rows}

BolSet(frame) == {frame.rows[i].cells["bol_id"] : i \in DOMAIN frame.rows}

Counts == [i \in DOMAIN summary_df.rows |-> summary_df.rows[i].count]

CountOf(case) ==
    LET r == CHOOSE x \in Range(summary_df.rows) : x.case = case IN r.count

\* C1: every BOL id of the container rows is in exactly one of same_aj and
\* different_aj and in exactly one of same_ak and different_ak; it is in the
\* "same" set exactly when the field takes one distinct value (the blank
\* counted) over the BOL's container rows and in the "different" set exactly
\* when it takes more than one.
C1_Classification ==
    pc = "success" =>
        \A b \in BolIds :
            /\ (b \in bols_same_aj) # (b \in bols_diff_aj)
            /\ (b \in bols_same_ak) # (b \in bols_diff_ak)
            /\ (b \in bols_same_aj) <=> (Cardinality(ValuesOf(b, "aj")) = 1)
            /\ (b \in bols_diff_aj) <=> (Cardinality(ValuesOf(b, "aj")) > 1)
            /\ (b \in bols_same_ak) <=> (Cardinality(ValuesOf(b, "ak")) = 1)
            /\ (b \in bols_diff_ak) <=> (Cardinality(ValuesOf(b, "ak")) > 1)

\* A run with a BOL of several rows that differ in aj, and a single-row BOL
\* whose aj is blank and which is "same" for both fields.
C1_Witness ==
    /\ pc = "success"
    /\ \E b \in bols_diff_aj : Cardinality(RowsOfBol(b)) > 1
    /\ \E b \in bols_same_aj \cap bols_same_ak :
           /\ Cardinality(RowsOfBol(b)) = 1
           /\ ValuesOf(b, "aj") = {""}

\* C2: the container rows are exactly the rows of the loaded table whose
\* value in the column selected for the shipment type is "Container".
C2_FilterExact ==
    Ran =>
        IdxSet(containers) =
            {df.rows[i].idx : i \in
                {j \in DOMAIN df.rows :
                    df.rows[j].cells[mapping.shipment_type_col] = "Container"}}

\* C3: after the projection each of the five working fields of a row equals
\* the row's loaded value in the column selected for that role.
C3_ProjectionFaithful ==
    Ran =>
        /\ DOMAIN work_df.rows = DOMAIN df.rows
        /\ \A i \in DOMAIN df.rows :
            /\ work_df.rows[i].cells["identifier"]
                   = df.rows[i].cells[mapping.identifier_col]
            /\ work_df.rows[i].cells["shipment_type"]
                   = df.rows[i].cells[mapping.shipment_type_col]
            /\ work_df.rows[i].cells["bol_id"]
                   = df.rows[i].cells[mapping.bol_id_col]
            /\ work_df.rows[i].cells["aj"] = df.rows[i].cells[mapping.aj_col]
            /\ work_df.rows[i].cells["ak"] = df.rows[i].cells[mapping.ak_col]

\* C4: in a run that produces a summary the counts of bols_same_aj and
\* bols_different_aj add up to the count of unique_bols, and so do the
\* counts of bols_same_ak and bols_different_ak.
C4_CountsAddUp ==
    pc = "success" =>
        /\ CountOf("bols_same_aj") + CountOf("bols_different_aj")
               = CountOf("unique_bols")
        /\ CountOf("bols_same_ak") + CountOf("bols_different_ak")
               = CountOf("unique_bols")

\* A summary over several BOLs with both kinds present for each field.
C4_Witness ==
    /\ pc = "success"
    /\ CountOf("unique_bols") >= 2
    /\ CountOf("bols_same_aj") >= 1
    /\ CountOf("bols_different_aj") >= 1
    /\ CountOf("bols_same_ak") >= 1
    /\ CountOf("bols_different_ak") >= 1

ScenarioMapping ==
    [identifier_col |-> "id", shipment_type_col |-> "type",
     bol_id_col |-> "bol", aj_col |-> "a", ak_col |-> "b"]

ScenarioLoaded ==
    /\ df = ReadCsv([header |-> ScenarioHeader, lines |-> ScenarioLines])
    /\ mapping = ScenarioMapping

\* C5: with a non-empty container set the summary has six rows, in the order
\* total_container_rows, unique_bols, bols_same_aj, bols_different_aj,
\* bols_same_ak, bols_different_ak, counting the container rows, the
\* distinct bol_id values among them (the blank one included) and the sizes
\* of the four membership sets; for the four-row scenario the counts are
\* 3, 2, 2, 0, 1, 1.
C5_Summary ==
    pc = "success" =>
        /\ summary_df.columns = <<"case", "description", "count">>
        /\ [i \in DOMAIN summary_df.rows |-> summary_df.rows[i].case]
               = <<"total_container_rows", "unique_bols", "bols_same_aj",
                   "bols_different_aj", "bols_same_ak", "bols_different_ak">>
        /\ Counts = <<Len(containers.rows), Cardinality(BolIds),
                      Cardinality(bols_same_aj), Cardinality(bols_diff_aj),
                      Cardinality(bols_same_ak), Cardinality(bols_diff_ak)>>
        /\ Cardinality(IdxSet(unique_bols)) = Cardinality(BolIds)
        /\ BolSet(unique_bols) = BolIds
        /\ ScenarioLoaded => Counts = <<3, 2, 2, 0, 1, 1>>

\* The run on the four-row scenario.
C5_Witness == pc = "success" /\ ScenarioLoaded

\* C6: for each field the two extract tables share no row, all container rows
\* of a BOL are in one and the same of the two, and the bol_id values of the
\* two tables together are those of the container rows.
C6_ExtractsPartition ==
    pc = "success" =>
        /\ IdxSet(same_aj_df) \cap IdxSet(different_aj_df) = {}
        /\ IdxSet(same_ak_df) \cap IdxSet(different_ak_df) = {}
        /\ Len(same_aj_df.rows) + Len(different_aj_df.rows) = Len(containers.rows)
        /\ Len(same_ak_df.rows) + Len(different_ak_df.rows) = Len(containers.rows)
        /\ \A b \in BolIds :
            LET idxs == {containers.rows[i].idx : i \in RowsOfBol(b)}
            IN  /\ (idxs \subseteq IdxSet(same_aj_df))
                       # (idxs \subseteq IdxSet(different_aj_df))
                /\ (idxs \cap IdxSet(same_aj_df) = {})
                       # (idxs \cap IdxSet(different_aj_df) = {})
                /\ (idxs \subseteq IdxSet(same_ak_df))
                       # (idxs \subseteq IdxSet(different_ak_df))
                /\ (idxs \cap IdxSet(same_ak_df) = {})
                       # (idxs \cap IdxSet(different_ak_df) = {})
        /\ BolSet(same_aj_df) \cup BolSet(different_aj_df) = BolIds
        /\ BolSet(same_ak_df) \cup BolSet(different_ak_df) = BolIds

\* A run in which all four extract tables have rows.
C6_Witness ==
    /\ pc = "success"
    /\ same_aj_df.rows # <<>>
    /\ different_aj_df.rows # <<>>
    /\ same_ak_df.rows # <<>>
    /\ different_ak_df.rows # <<>>

\* C7: when the filter matches no row the run warns and stops: no grouping,
\* no archive, no download, no success message, no summary preview; an
\* archive exists only after a run whose container set is non-empty.
C7_EmptyStops ==
    /\ (Ran /\ containers.rows = <<>>) =>
           /\ "warning" \in Range(messages)
           /\ Range(messages) \cap
                  {"success", "download_button", "summary_preview", "error"} = {}
           /\ zip_buffer = <<>>
           /\ bol_stats = {}
           /\ unique_bols = NoFrame
           /\ summary_df = NoFrame
    /\ (zip_buffer # <<>> \/ "success" \in Range(messages)) =>
           /\ containers.rows # <<>>
           /\ "warning" \notin Range(messages)

\* A run on a table that has rows, none of them a container row.
C7_Witness ==
    /\ pc = "warned"
    /\ df.rows # <<>>
    /\ zip_buffer = <<>>

Increasing(frame) ==
    \A i, j \in DOMAIN frame.rows : i < j => frame.rows[i].idx < frame.rows[j].idx

IsExtractOf(t) ==
    /\ t.columns = <<"bol_id", "identifier", "shipment_type", "aj", "ak">>
    /\ Increasing(t)
    /\ \A i \in DOMAIN t.rows :
        /\ DOMAIN t.rows[i].cells = Range(t.columns)
        /\ \E j \in DOMAIN containers.rows :
            /\ containers.rows[j].idx = t.rows[i].idx
            /\ \A c \in Range(t.columns) :
                   t.rows[i].cells[c] = containers.rows[j].cells[c]

\* C9: each extract table is a subsequence of the container rows, which are
\* themselves in the order of the loaded table: the rows keep their relative
\* order, none is repeated, and each has the columns bol_id, identifier,
\* shipment_type, aj, ak in that order.
C9_ExtractOrder ==
    pc = "success" =>
        /\ Increasing(containers)
        /\ \A i \in DOMAIN containers.rows :
               \E j \in DOMAIN work_df.rows : work_df.rows[j] = containers.rows[i]
        /\ Increasing(work_df)
        /\ IsExtractOf(same_aj_df)
        /\ IsExtractOf(different_aj_df)
        /\ IsExtractOf(same_ak_df)
        /\ IsExtractOf(different_ak_df)

\* An extract table in which the rows of one BOL are separated by a row of
\* another BOL.
C9_Witness ==
    /\ pc = "success"
    /\ \E t \in {same_aj_df, different_aj_df, same_ak_df, different_ak_df} :
        \E i, j, k \in DOMAIN t.rows :
            /\ i < j
            /\ j < k
            /\ t.rows[i].cells["bol_id"] = t.rows[k].cells["bol_id"]
            /\ t.rows[i].cells["bol_id"] # t.rows[j].cells["bol_id"]

\* The written content of a table (to_csv(index=False)).
Content(frame) ==
    [columns |-> frame.columns,
     rows    |-> [i \in DOMAIN frame.rows |-> frame.rows[i].cells]]

Written(ubols, sameAj, diffAj, sameAk, diffAk, summary) ==
    <<Content(ubols), Content(sameAj), Content(diffAj), Content(sameAk),
      Content(diffAk), summary.rows>>

\* The positions of the loaded rows that are not container rows.
NonContainers(frame, m) ==
    LET work == Project(frame, m)
    IN  {i \in DOMAIN frame.rows :
            work.rows[i].cells["shipment_type"] # "Container"}

Reindexed(rows) ==
    [i \in DOMAIN rows |-> [idx |-> i - 1, cells |-> rows[i].cells]]

\* The lines another file with the same header may have in place of a row.
OtherLines(header) ==
    IF header = NarrowHeader THEN NarrowLines
    ELSE Range(ScenarioLines) \cup {<<"5", "Other", "B", "10", "12">>}

\* The loaded table with the row at position out left out.
Without(out) ==
    [columns |-> df.columns,
     rows    |-> Reindexed(Pick(df.rows, DOMAIN df.rows \ {out}))]

\* The loaded table with the row at position i replaced by the line l.
Replaced(i, l) ==
    [columns |-> df.columns,
     rows    |-> [df.rows EXCEPT ![i] =
                    [idx   |-> @.idx,
                     cells |-> ReadCsv([header |-> df.columns,
                                        lines  |-> <<l>>]).rows[1].cells]]]

\* The result res of the analysis of another table has the tables and the
\* summary of the run.
SameResult(res) ==
    /\ ~res.empty
    /\ Written(res.unique_bols, res.same_aj_df, res.different_aj_df,
               res.same_ak_df, res.different_ak_df, res.summary_df)
         = Written(unique_bols, same_aj_df, different_aj_df,
                   same_ak_df, different_ak_df, summary_df)

\* C10: rows that are not container rows do not influence the result: a table
\* with the same container rows in the same order and other non-container
\* rows (one of them left out, or one of them replaced by another
\* non-container row) gives, with the same selections, the same unique_bols
\* table, the same four extract tables and the same summary.  Tables that
\* differ in several such rows are reached by a chain of these steps, and a
\* row inserted is a row left out seen from the other table.
C10_NonContainersIrrelevant ==
    pc = "success" =>
        LET non == NonContainers(df, mapping)
        IN  /\ \A out \in non :
                   \A res \in {Analyse(Without(out), mapping)} : SameResult(res)
            /\ \A i \in non, l \in OtherLines(df.columns) :
                   \A res \in {Analyse(Replaced(i, l), mapping)} :
                       res.work_df.rows[i].cells["shipment_type"] # "Container"
                           => SameResult(res)

\* A run on a table with a non-container row that has the BOL id of a
\* container row.
C10_Witness ==
    /\ pc = "success"
    /\ \E i \in NonContainers(df, mapping) :
           work_df.rows[i].cells["bol_id"] \in BolIds

====
